---- MODULE Spec2Model ----
(***************************************************************************)
(* folder-syncv: one-way mirroring of a source directory tree onto a       *)
(* replica directory tree (src/src/folder_syncv/syncv.py).                 *)
(*                                                                         *)
(* The file system is one function from absolute paths to entries.  A path *)
(* is a sequence of names and a name is a sequence of characters, so that  *)
(* the string manipulation the program uses to derive a relative path      *)
(* (str.replace, str.lstrip) and the pattern matching of Path.glob are     *)
(* computed character by character, as the program computes them.          *)
(***************************************************************************)
EXTENDS Integers, Sequences, FiniteSets, TLC

VARIABLES
    fs,            \* the file system: absolute path -> entry
    syncinterval,  \* sync_folder's argument
    sync_count,    \* sync_folder's round number
    pc,            \* position of sync_folder
    folder_queue,  \* the deque of the running pass
    pending,       \* what is left of `for el in current_folder.glob("*")`
    fwd,           \* locals (counters) of sync_source_to_replica
    rev,           \* locals (counters) of sync_replica_to_source
    err,           \* the exception that ended sync_folder, or "none"
    last,          \* the entry processed by the latest step of a pass, with
                   \* the file system and the counters the step started from
    round_fs,      \* the file system the current round started from
    written,       \* the files the forward passes have written so far: source
                   \* file, replica file and round
    start_time,    \* sync_folder's reading of the timer at the round's start
    end_time,      \* sync_folder's latest reading of the timer after the passes
    log,           \* the records logged at level WARNING or higher
    exit_code      \* the exit status of the process, or Running

vars == <<fs, syncinterval, sync_count, pc, folder_queue, pending,
          fwd, rev, err, last, round_fs, written, start_time, end_time,
          log, exit_code>>

(***************************************************************************)
(* Bounds of the model.                                                    *)
(***************************************************************************)
MaxEntries == 3      \* entries below the two roots, together, at start
MaxRounds == 2       \* rounds of sync_folder that are explored

\* File contents and modification times: the program only compares them
\* for equality.
Contents == {"x", "y"}
Times == {1, 2}

(***************************************************************************)
(* Names of entries.  "[a]" is a legal file name that Path.glob reads as   *)
(* a pattern; "s" repeats the text of the source root "/s".                *)
(***************************************************************************)
Names == { <<"a">>, <<"s">>, <<"[", "a", "]">> }

SourceRoot == << <<"s">> >>
ReplicaRoot == << <<"p">>, <<"r">> >>

Intervals == {0, 1}

\* seconds by which a reading of the timer is later than the reading before
\* it, and seconds that sleep(1) takes
Lags == {0, 1}
Sleeps == {1, 2}

(***************************************************************************)
(* Strings.                                                                *)
(***************************************************************************)
RECURSIVE as_posix(_)
as_posix(path) ==
    IF path = <<>> THEN <<>>
    ELSE <<"/">> \o Head(path) \o as_posix(Tail(path))

IsPrefix(p, s) == Len(p) <= Len(s) /\ SubSeq(s, 1, Len(p)) = p

\* str.replace(old, new): every non-overlapping occurrence, left to right
RECURSIVE str_replace(_, _, _)
str_replace(s, old, new) ==
    IF s = <<>> THEN <<>>
    ELSE IF IsPrefix(old, s)
         THEN new \o str_replace(SubSeq(s, Len(old) + 1, Len(s)), old, new)
         ELSE <<Head(s)>> \o str_replace(Tail(s), old, new)

\* str.lstrip("/")
RECURSIVE lstrip(_)
lstrip(s) ==
    IF s # <<>> /\ Head(s) = "/" THEN lstrip(Tail(s)) ELSE s

\* the parts of a path string: split on "/", empty parts dropped
RECURSIVE parts(_, _)
parts(s, cur) ==
    IF s = <<>> THEN (IF cur = <<>> THEN <<>> ELSE <<cur>>)
    ELSE IF Head(s) = "/"
         THEN (IF cur = <<>> THEN <<>> ELSE <<cur>>) \o parts(Tail(s), <<>>)
         ELSE parts(Tail(s), Append(cur, Head(s)))

Path(s) == parts(s, <<>>)

\* glob_str = p.as_posix().replace(root.as_posix(), "").lstrip("/")
glob_str(p, root) == lstrip(str_replace(as_posix(p), as_posix(root), <<>>))

(***************************************************************************)
(* fnmatch, for the characters "*", "?" and "[seq]" (the alphabet of Names *)
(* has no "!" and no "-", so negation and ranges are not modelled).        *)
(***************************************************************************)
\* position of the "]" that closes the "[" at position 1, or 0
ClosePos(pat) ==
    LET start == IF Len(pat) >= 2 /\ pat[2] = "]" THEN 3 ELSE 2
        cands == {k \in start..Len(pat) : pat[k] = "]"}
    IN  IF cands = {} THEN 0 ELSE CHOOSE k \in cands : \A j \in cands : k <= j

RECURSIVE fnmatch(_, _)
fnmatch(name, pat) ==
    IF pat = <<>> THEN name = <<>>
    ELSE IF Head(pat) = "*"
         THEN fnmatch(name, Tail(pat))
              \/ (name # <<>> /\ fnmatch(Tail(name), pat))
    ELSE IF Head(pat) = "?"
         THEN name # <<>> /\ fnmatch(Tail(name), Tail(pat))
    ELSE IF Head(pat) = "[" /\ ClosePos(pat) # 0
         THEN LET k == ClosePos(pat)
              IN  /\ name # <<>>
                  /\ \E j \in 2..(k - 1) : pat[j] = Head(name)
                  /\ fnmatch(Tail(name), SubSeq(pat, k + 1, Len(pat)))
    ELSE name # <<>> /\ Head(name) = Head(pat)
         /\ fnmatch(Tail(name), Tail(pat))

is_wildcard_pattern(pat) ==
    \E i \in 1..Len(pat) : pat[i] \in {"*", "?", "["}

(***************************************************************************)
(* The file system.                                                        *)
(***************************************************************************)
Dir == [kind |-> "dir", data |-> "", mtime |-> 0]
File(d, m) == [kind |-> "file", data |-> d, mtime |-> m]

exists(f, p) == p \in DOMAIN f
is_file(f, p) == p \in DOMAIN f /\ f[p].kind = "file"
is_dir(f, p) == p \in DOMAIN f /\ f[p].kind = "dir"

Parent(p) == SubSeq(p, 1, Len(p) - 1)
Name(p) == p[Len(p)]
Children(f, p) == {q \in DOMAIN f : Len(q) = Len(p) + 1 /\ IsPrefix(p, q)}
Under(f, p) == {q \in DOMAIN f : IsPrefix(p, q)}
Below(f, p) == Under(f, p) \ {p}

\* the entries below root, keyed by their path relative to root
Tree(f, root) ==
    [r \in {SubSeq(q, Len(root) + 1, Len(q)) : q \in Below(f, root)}
        |-> f[root \o r]]

\* Path.glob(pattern) under root: one selector per part of the pattern; a
\* part with a wildcard character is matched against the scanned names, a
\* literal part is looked up; every part but the last must be a directory
RECURSIVE select_from(_, _, _)
select_from(f, parents, pattern_parts) ==
    IF pattern_parts = <<>> THEN parents
    ELSE
        LET pat == Head(pattern_parts)
            dironly == Len(pattern_parts) > 1
            found(p) ==
                IF is_wildcard_pattern(pat)
                THEN {q \in Children(f, p) : fnmatch(Name(q), pat)}
                ELSE {q \in {Append(p, pat)} : exists(f, q)}
            next == UNION {found(p) : p \in {x \in parents : is_dir(f, x)}}
        IN  select_from(f, {q \in next : dironly => is_dir(f, q)},
                        Tail(pattern_parts))

glob(f, root, pattern) == select_from(f, {root}, Path(pattern))

(***************************************************************************)
(* File operations.  Each yields the file system it leaves and the         *)
(* exception it raises ("none" when it returns).                           *)
(***************************************************************************)
Ok(f) == [fs |-> f, err |-> "none"]
Raise(f, e) == [fs |-> f, err |-> e]

Without(f, gone) == [q \in DOMAIN f \ gone |-> f[q]]

\* Path.rmdir
rmdir(f, p) ==
    IF ~exists(f, p) THEN Raise(f, "FileNotFoundError")
    ELSE IF ~is_dir(f, p) THEN Raise(f, "NotADirectoryError")
    ELSE IF Children(f, p) # {} THEN Raise(f, "OSError")
    ELSE Ok(Without(f, {p}))

\* Path.unlink
unlink(f, p) ==
    IF ~exists(f, p) THEN Raise(f, "FileNotFoundError")
    ELSE IF is_dir(f, p) THEN Raise(f, "IsADirectoryError")
    ELSE Ok(Without(f, {p}))

\* shutil.rmtree
rmtree(f, p) ==
    IF ~exists(f, p) THEN Raise(f, "FileNotFoundError")
    ELSE IF ~is_dir(f, p) THEN Raise(f, "NotADirectoryError")
    ELSE Ok(Without(f, Under(f, p)))

\* shutil.copy2(src, dst): into dst when dst is a directory; the source is
\* opened first, then the destination is created or truncated; content and
\* modification time are those of the source; `to` is the path returned
copy2(f, src, dst) ==
    LET to == IF is_dir(f, dst) THEN Append(dst, Name(src)) ELSE dst
        res == IF ~exists(f, src) THEN Raise(f, "FileNotFoundError")
               ELSE IF is_dir(f, src) THEN Raise(f, "IsADirectoryError")
               ELSE IF is_dir(f, to) THEN Raise(f, "IsADirectoryError")
               ELSE IF is_file(f, Parent(to)) THEN Raise(f, "NotADirectoryError")
               ELSE IF ~exists(f, Parent(to)) THEN Raise(f, "FileNotFoundError")
               ELSE Ok([q \in DOMAIN f \cup {to} |->
                           IF q = to THEN f[src] ELSE f[q]])
    IN  [fs |-> res.fs, err |-> res.err, to |-> to]

\* a copy that makes the destination folder and leaves its content out
copytree_shallow(f, src, dst) ==
    IF exists(f, dst) THEN Raise(f, "FileExistsError")
    ELSE Ok([q \in DOMAIN f \cup {dst} |-> IF q = dst THEN Dir ELSE f[q]])

\* shutil.copytree(src, dst): os.makedirs(dst) creates dst and its missing
\* parents and fails when dst exists; then every entry below src is copied
\* (files by copy2)
copytree(f, src, dst) ==
    LET ancestors == {SubSeq(dst, 1, k) : k \in 1..(Len(dst) - 1)}
        copied == {dst \o SubSeq(q, Len(src) + 1, Len(q)) : q \in Under(f, src)}
        from(q) == src \o SubSeq(q, Len(dst) + 1, Len(q))
    IN  IF exists(f, dst) THEN Raise(f, "FileExistsError")
        ELSE IF \E a \in ancestors : is_file(f, a)
             THEN Raise(f, "NotADirectoryError")
        ELSE Ok([q \in DOMAIN f \cup ancestors \cup copied |->
                    IF q \in copied THEN f[from(q)]
                    ELSE IF q \in DOMAIN f THEN f[q]
                    ELSE Dir])

\* hashlib.md5 of the content: equal contents have equal digests
compute_hash(f, p) == <<"md5", f[p].data>>

(***************************************************************************)
(* The entry classifier.  Each function yields "True", "False" or the      *)
(* exception it raises.                                                    *)
(***************************************************************************)
\* potential_matches = list(destination.glob(glob_str))
potential_matches(f, x, source, destination) ==
    glob(f, destination, glob_str(x, source))

\* Path.glob("") raises ValueError
unacceptable(x, source) == glob_str(x, source) = <<>>

\* potential_matches[0]
first(matches) == CHOOSE m \in matches : TRUE

is_folder_in_other_as_folder(f, folder_to_check, source, destination) ==
    LET pm == potential_matches(f, folder_to_check, source, destination)
    IN  IF unacceptable(folder_to_check, source) THEN "ValueError"
        ELSE IF pm # {} /\ is_dir(f, first(pm)) THEN "True"
        ELSE "False"

is_folder_in_other_as_file(f, folder_to_check, source, destination) ==
    LET pm == potential_matches(f, folder_to_check, source, destination)
    IN  IF unacceptable(folder_to_check, source) THEN "ValueError"
        ELSE IF pm # {} /\ is_file(f, first(pm)) THEN "True"
        ELSE "False"

is_file_in_other_as_folder(f, file_to_check, source, destination) ==
    LET pm == potential_matches(f, file_to_check, source, destination)
    IN  IF unacceptable(file_to_check, source) THEN "ValueError"
        ELSE IF pm # {} /\ is_dir(f, first(pm)) THEN "True"
        ELSE "False"

is_file_in_other(f, file_to_check, source, destination) ==
    LET pm == potential_matches(f, file_to_check, source, destination)
    IN  IF unacceptable(file_to_check, source) THEN "ValueError"
        ELSE IF pm # {}
             THEN (IF is_file(f, first(pm)) THEN "True"
                   ELSE "ExpectedFileIsAFolder")
        ELSE "False"

is_file_in_other_modified(f, file_to_check, source, destination) ==
    LET pm == potential_matches(f, file_to_check, source, destination)
    IN  IF unacceptable(file_to_check, source) THEN "ValueError"
        ELSE IF pm # {}
             THEN (IF f[file_to_check].mtime = f[first(pm)].mtime THEN "False"
                   ELSE IF compute_hash(f, file_to_check) = compute_hash(f, first(pm))
                        THEN "False"
                   ELSE "True")
        ELSE "FileNotFoundError"

(***************************************************************************)
(* sync_source_to_replica: the body of the for loop for one element.       *)
(* c is the record of the pass's counters; the result has the file system  *)
(* left, the exception raised ("none" when the body completes) and the     *)
(* counters.                                                               *)
(***************************************************************************)
Step(f, e, c) == [fs |-> f, err |-> e, c |-> c]

\* replica / (el.as_posix().replace(source.as_posix(), "").lstrip("/"))
replica_path(el, source, replica) == replica \o Path(glob_str(el, source))

\* Path(el.as_posix().replace(source.as_posix(), replica.as_posix()))
destination_folder(el, source, replica) ==
    Path(str_replace(as_posix(el), as_posix(source), as_posix(replica)))

\* lines 130-148: the file is copied when absent and updated when modified
copy_or_update(f, el, source, replica, c) ==
    LET inother == is_file_in_other(f, el, source, replica)
        modified == is_file_in_other_modified(f, el, source, replica)
        cp == copy2(f, el, replica_path(el, source, replica))
    IN  IF inother = "True"
        THEN (IF modified = "True"
              THEN (IF cp.err # "none" THEN Step(cp.fs, cp.err, c)
                    ELSE Step(cp.fs, "none",
                              [c EXCEPT !.files_updated = @ + 1]))
              ELSE IF modified = "False" THEN Step(f, "none", c)
              ELSE Step(f, modified, c))
        ELSE IF inother = "False"
        THEN (IF cp.err # "none" THEN Step(cp.fs, cp.err, c)
              ELSE Step(cp.fs, "none", [c EXCEPT !.files_copied = @ + 1]))
        ELSE Step(f, inother, c)

\* lines 122-148
file_branch(f, el, source, replica, c) ==
    LET c1 == [c EXCEPT !.files_count = @ + 1]
        asfolder == is_file_in_other_as_folder(f, el, source, replica)
        rm == rmdir(f, replica_path(el, source, replica))
    IN  IF asfolder = "True"
        THEN (IF rm.err # "none" THEN Step(rm.fs, rm.err, c1)
              ELSE copy_or_update(rm.fs, el, source, replica,
                                  [c1 EXCEPT !.folders_deleted = @ + 1]))
        ELSE IF asfolder = "False"
        THEN copy_or_update(f, el, source, replica, c1)
        ELSE Step(f, asfolder, c1)

\* lines 149-167; enqueue tells whether el is appended to folder_queue
folder_branch(f, el, source, replica, c) ==
    LET c1 == [c EXCEPT !.folders_count = @ + 1]
        asfolder == is_folder_in_other_as_folder(f, el, source, replica)
        asfile == is_folder_in_other_as_file(f, el, source, replica)
        cp == copy2(f, el, replica_path(el, source, replica))
        ul == unlink(cp.fs, cp.to)
        tree(g) == copytree(g, el, destination_folder(el, source, replica))
        whole(g) ==
            IF tree(g).err # "none" THEN Step(tree(g).fs, tree(g).err, c1)
            ELSE Step(tree(g).fs, "none", [c1 EXCEPT !.folders_copied = @ + 1])
    IN  IF asfolder = "True" THEN Step(f, "none", c1) @@ [enqueue |-> TRUE]
        ELSE [enqueue |-> FALSE] @@
             (IF asfolder # "False" THEN Step(f, asfolder, c1)
              ELSE IF asfile = "True"
              THEN (IF cp.err # "none" THEN Step(cp.fs, cp.err, c1)
                    ELSE IF ul.err # "none" THEN Step(ul.fs, ul.err, c1)
                    ELSE whole(ul.fs))
              ELSE IF asfile = "False" THEN whole(f)
              ELSE Step(f, asfile, c1))

(***************************************************************************)
(* sync_replica_to_source: the body of the for loop for one element.       *)
(***************************************************************************)
\* lines 190-195
replica_file_branch(f, el, source, replica, c) ==
    LET inother == is_file_in_other(f, el, replica, source)
        ul == unlink(f, el)
    IN  IF inother = "False"
        THEN (IF ul.err # "none" THEN Step(ul.fs, ul.err, c)
              ELSE Step(ul.fs, "none", [c EXCEPT !.files_deleted = @ + 1]))
        ELSE IF inother = "True" THEN Step(f, "none", c)
        ELSE Step(f, inother, c)

\* a reverse pass that counts every file below a folder it removes
replica_folder_branch_per_file(f, el, source, replica, c) ==
    LET asfolder == is_folder_in_other_as_folder(f, el, replica, source)
        rt == rmtree(f, el)
        files == {q \in Below(f, el) : is_file(f, q)}
    IN  IF asfolder = "True" THEN Step(f, "none", c)
        ELSE IF asfolder = "False"
        THEN (IF rt.err # "none" THEN Step(rt.fs, rt.err, c)
              ELSE Step(rt.fs, "none",
                        [c EXCEPT !.folders_deleted = @ + 1,
                                  !.files_deleted = @ + Cardinality(files)]))
        ELSE Step(f, asfolder, c)

\* lines 196-202: a folder that is a folder in source is passed over, and
\* is not appended to folder_queue
replica_folder_branch(f, el, source, replica, c) ==
    LET asfolder == is_folder_in_other_as_folder(f, el, replica, source)
        rt == rmtree(f, el)
    IN  IF asfolder = "True" THEN Step(f, "none", c)
        ELSE IF asfolder = "False"
        THEN (IF rt.err # "none" THEN Step(rt.fs, rt.err, c)
              ELSE Step(rt.fs, "none", [c EXCEPT !.folders_deleted = @ + 1]))
        ELSE Step(f, asfolder, c)

(***************************************************************************)
(* Initial states: a source tree and a replica tree of a few entries each, *)
(* under roots that exist and are directories.                             *)
(***************************************************************************)
Entries == {Dir} \cup {File(d, m) : d \in Contents, m \in Times}

\* the sets of at most n relative paths that are closed under Parent
RECURSIVE Shapes(_)
Shapes(n) ==
    IF n = 0 THEN {{}}
    ELSE LET prev == Shapes(n - 1)
         IN  prev \cup UNION {{S \cup {Append(p, nm)} : p \in S \cup {<<>>},
                                                      nm \in Names} : S \in prev}

\* the trees of at most n entries: only directories have children
Trees(n) ==
    UNION {{t \in [S -> Entries] :
               \A p \in S : (\E q \in S : q # <<>> /\ Parent(q) = p)
                               => t[p] = Dir} : S \in Shapes(n)}

Mount(root, t) == [q \in {root \o r : r \in DOMAIN t} |->
                      t[SubSeq(q, Len(root) + 1, Len(q))]]

NoCounts == [files_count |-> 0, folders_count |-> 0, files_copied |-> 0,
             files_updated |-> 0, folders_copied |-> 0, folders_deleted |-> 0]
NoDeletes == [files_deleted |-> 0, folders_deleted |-> 0]
NoStep == [op |-> "none", el |-> <<>>, fs |-> <<>>, c |-> <<>>]

\* the value of exit_code while the process has not ended
Running == -1

Init ==
    /\ \E s \in Trees(MaxEntries) :
          \E r \in Trees(MaxEntries - Cardinality(DOMAIN s)) :
              fs = (SourceRoot :> Dir) @@ (Parent(ReplicaRoot) :> Dir)
                   @@ (ReplicaRoot :> Dir)
                   @@ Mount(SourceRoot, s) @@ Mount(ReplicaRoot, r)
    /\ syncinterval \in Intervals
    /\ sync_count = 1
    /\ pc = "validate_source"
    /\ folder_queue = <<>>
    /\ pending = {}
    /\ fwd = NoCounts
    /\ rev = NoDeletes
    /\ err = "none"
    /\ last = NoStep
    /\ round_fs = fs
    /\ written = {}
    /\ start_time = 0
    /\ end_time = 0
    /\ log = <<>>
    /\ exit_code = Running

(***************************************************************************)
(* sync_folder.                                                            *)
(***************************************************************************)
\* _logger.warn, _logger.error and _logger.exception: the record logged
warn(msg) == [level |-> "WARNING", msg |-> msg]
error(msg) == [level |-> "ERROR", msg |-> msg]
exception(e) == [level |-> "ERROR", msg |-> e]

\* except clauses that leave KeyboardInterrupt out
Handled_no_interrupt == {"FileNotFoundError", "ExpectedFileIsAFolder",
                         "PermissionError"}

\* the except clauses of sync_folder (lines 85-92): these are logged and
\* sync_folder returns; any other exception leaves sync_folder
Handled == {"KeyboardInterrupt", "FileNotFoundError", "ExpectedFileIsAFolder",
            "PermissionError"}

\* an exception raised inside the try block
Abort(e) ==
    /\ err' = e
    /\ pc' = IF e \in Handled THEN "stopped" ELSE "raised"
    /\ log' = IF e \notin Handled THEN log
              ELSE IF e = "KeyboardInterrupt"
                   THEN Append(log, warn("Sync interrupted by keyboard"))
                   ELSE Append(log, exception(e))
    /\ exit_code' = IF e \in Handled THEN 0 ELSE 1
    /\ folder_queue' = <<>>
    /\ pending' = {}

\* Path.mkdir() without parents=True: the parent has to be there
mkdir_no_parents(f, p, denied) ==
    IF \E k \in 1..Len(p) : is_file(f, SubSeq(p, 1, k))
    THEN Raise(f, IF exists(f, p) THEN "FileExistsError"
                  ELSE "NotADirectoryError")
    ELSE IF ~exists(f, Parent(p)) THEN Raise(f, "FileNotFoundError")
    ELSE IF denied THEN Raise(f, "PermissionError")
    ELSE Ok((p :> Dir) @@ f)

\* Path.mkdir(parents=True) of a path that does not exist: the missing
\* ancestors are created, then the directory; denied says that the
\* directory the first of them goes into does not allow it
mkdir(f, p, denied) ==
    LET missing == {q \in {SubSeq(p, 1, k) : k \in 1..Len(p)} : ~exists(f, q)}
    IN  IF \E k \in 1..Len(p) : is_file(f, SubSeq(p, 1, k))
        THEN Raise(f, IF exists(f, p) THEN "FileExistsError"
                      ELSE "NotADirectoryError")
        ELSE IF denied THEN Raise(f, "PermissionError")
        ELSE Ok([q \in missing |-> Dir] @@ f)

\* a validate_source that does not ask whether the path is a folder
validate_source_exists_only(f, path) ==
    IF ~exists(f, path)
    THEN [exit |-> 1, logged |-> <<error("SOURCE folder doesn't exist")>>]
    ELSE [exit |-> Running, logged |-> <<>>]

\* validate_source: the exit status it ends the process with, or Running,
\* and what it logs
validate_source(f, path) ==
    IF ~exists(f, path)
    THEN [exit |-> 1, logged |-> <<error("SOURCE folder doesn't exist")>>]
    ELSE IF ~is_dir(f, path)
    THEN [exit |-> 1, logged |-> <<error("SOURCE is not a folder")>>]
    ELSE [exit |-> Running, logged |-> <<>>]

\* validate_replica: the file system it leaves, the exception that leaves
\* it, the exit status it ends the process with, or Running, and what it
\* logs.  `raise SystemExit()` is an exit with status 0; an exception of
\* mkdir other than PermissionError is not caught
validate_replica(f, path, denied) ==
    LET m == IF ~exists(f, path) THEN mkdir(f, path, denied) ELSE Ok(f)
    IN  IF m.err = "PermissionError"
        THEN [fs |-> m.fs, err |-> "SystemExit", exit |-> 0,
              logged |-> <<error("Permission denied trying to create REPLICA folder")>>]
        ELSE IF m.err # "none"
        THEN [fs |-> m.fs, err |-> m.err, exit |-> 1, logged |-> <<>>]
        ELSE IF ~is_dir(m.fs, path)
        THEN [fs |-> m.fs, err |-> "SystemExit", exit |-> 1,
              logged |-> <<error("REPLICA is not a folder")>>]
        ELSE [fs |-> m.fs, err |-> "none", exit |-> Running, logged |-> <<>>]

\* validate_source(source), line 45: the process ends here when the source
\* is not a folder
ValidateSource ==
    /\ pc = "validate_source"
    /\ LET v == validate_source(fs, SourceRoot)
       IN  /\ log' = log \o v.logged
           /\ exit_code' = v.exit
           /\ err' = IF v.exit = Running THEN err ELSE "SystemExit"
           /\ pc' = IF v.exit = Running THEN "validate_replica" ELSE "exited"
    /\ UNCHANGED <<fs, syncinterval, sync_count, folder_queue, pending, fwd,
                   rev, last, round_fs, written, start_time, end_time>>

\* validate_replica(replica), line 46: the replica folder is created when
\* it is not there, the directory it goes into allowing it or not; the
\* process ends here when the replica is not a folder or cannot be created
ValidateReplica ==
    /\ pc = "validate_replica"
    /\ \E denied \in BOOLEAN :
          LET v == validate_replica(fs, ReplicaRoot, denied)
          IN  /\ fs' = v.fs
              /\ log' = log \o v.logged
              /\ exit_code' = v.exit
              /\ err' = v.err
              /\ pc' = IF v.err = "none" THEN "round"
                       ELSE IF v.err = "SystemExit" THEN "exited"
                       ELSE "raised"
    /\ UNCHANGED <<syncinterval, sync_count, folder_queue, pending, fwd, rev,
                   last, round_fs, written, start_time, end_time>>

\* folder_queue.append(source), line 117
forward_queue(source, replica) == <<source>>

\* a reverse pass that walks the source instead of the replica
reverse_queue_of_source(source, replica) == <<source>>

\* folder_queue.append(replica), line 185
reverse_queue(source, replica) == <<replica>>

\* the file a step of the forward pass has written with copy2 (the step
\* counted a copy or an update): the copy is at the path copy2 returned
file_written(r, el, c) ==
    LET rp == replica_path(el, SourceRoot, ReplicaRoot)
        to == IF is_dir(r.fs, rp) THEN Append(rp, Name(el)) ELSE rp
    IN  IF r.c.files_copied + r.c.files_updated
              > c.files_copied + c.files_updated
        THEN {[src |-> el, dst |-> to, round |-> sync_count]}
        ELSE {}

\* the files a step of the forward pass has written with copytree (the step
\* counted a copied folder): every file below the destination folder
folder_written(r, el, c) ==
    LET df == destination_folder(el, SourceRoot, ReplicaRoot)
    IN  IF r.c.folders_copied > c.folders_copied
        THEN {[src |-> el \o SubSeq(p, Len(df) + 1, Len(p)), dst |-> p,
               round |-> sync_count] : p \in {q \in Below(r.fs, df) :
                                                 is_file(r.fs, q)}}
        ELSE {}

\* default_timer(): a reading is not earlier than the reading before it
default_timer(before) == {before + d : d \in Lags}

\* default_timer() after sleep(1)
after_sleep(before) == {before + d : d \in Sleeps}

\* top of `while True`: the timer is read and the counters are reset and the forward pass starts
\* with source in its queue
StartRound ==
    /\ pc = "round"
    /\ pc' = "forward"
    /\ fwd' = NoCounts
    /\ rev' = NoDeletes
    /\ folder_queue' = forward_queue(SourceRoot, ReplicaRoot)
    /\ pending' = {}
    /\ last' = NoStep
    /\ round_fs' = fs
    /\ start_time' \in (IF sync_count = 1 THEN {0} ELSE default_timer(end_time))
    /\ UNCHANGED <<fs, syncinterval, sync_count, err, written, end_time,
                   log, exit_code>>

\* current_folder = folder_queue.popleft(); current_folder.glob("*")
Scan(pass) ==
    /\ pc = pass
    /\ pending = {}
    /\ folder_queue # <<>>
    /\ pending' = glob(fs, Head(folder_queue), <<"*">>)
    /\ folder_queue' = Tail(folder_queue)
    /\ UNCHANGED <<fs, syncinterval, sync_count, pc, fwd, rev, err, last,
                   round_fs, written, start_time, end_time, log, exit_code>>

ForwardScan == Scan("forward")

ForwardFile ==
    /\ pc = "forward"
    /\ \E el \in pending :
          /\ is_file(fs, el)
          /\ LET r == file_branch(fs, el, SourceRoot, ReplicaRoot, fwd)
             IN  /\ fs' = r.fs
                 /\ fwd' = r.c
                 /\ last' = [op |-> "file", el |-> el, fs |-> fs, c |-> fwd]
                 /\ written' = written \cup file_written(r, el, fwd)
                 /\ IF r.err = "none"
                    THEN /\ pending' = pending \ {el}
                         /\ UNCHANGED <<pc, err, folder_queue, log, exit_code>>
                    ELSE Abort(r.err)
    /\ UNCHANGED <<syncinterval, sync_count, rev, round_fs, start_time, end_time>>

ForwardFolder ==
    /\ pc = "forward"
    /\ \E el \in pending :
          /\ is_dir(fs, el)
          /\ LET r == folder_branch(fs, el, SourceRoot, ReplicaRoot, fwd)
             IN  /\ fs' = r.fs
                 /\ fwd' = r.c
                 /\ last' = [op |-> "folder", el |-> el, fs |-> fs, c |-> fwd]
                 /\ written' = written \cup folder_written(r, el, fwd)
                 /\ IF r.err = "none"
                    THEN /\ pending' = pending \ {el}
                         /\ folder_queue' = IF r.enqueue
                                            THEN Append(folder_queue, el)
                                            ELSE folder_queue
                         /\ UNCHANGED <<pc, err, log, exit_code>>
                    ELSE Abort(r.err)
    /\ UNCHANGED <<syncinterval, sync_count, rev, round_fs, start_time, end_time>>

\* a reverse pass that starts while the forward pass has entries left
ForwardReturn_early ==
    /\ pc = "forward"
    /\ pc' = "reverse"
    /\ folder_queue' = reverse_queue(SourceRoot, ReplicaRoot)
    /\ UNCHANGED <<fs, syncinterval, sync_count, pending, fwd, rev, err, last,
                   round_fs, written, start_time, end_time, log, exit_code>>

\* sync_source_to_replica returns; sync_replica_to_source starts with
\* replica in its queue
ForwardReturn ==
    /\ pc = "forward"
    /\ pending = {}
    /\ folder_queue = <<>>
    /\ pc' = "reverse"
    /\ folder_queue' = reverse_queue(SourceRoot, ReplicaRoot)
    /\ UNCHANGED <<fs, syncinterval, sync_count, pending, fwd, rev, err, last,
                   round_fs, written, start_time, end_time, log, exit_code>>

ReverseScan == Scan("reverse")

ReverseFile ==
    /\ pc = "reverse"
    /\ \E el \in pending :
          /\ is_file(fs, el)
          /\ LET r == replica_file_branch(fs, el, SourceRoot, ReplicaRoot, rev)
             IN  /\ fs' = r.fs
                 /\ rev' = r.c
                 /\ last' = [op |-> "replica file", el |-> el, fs |-> fs, c |-> rev]
                 /\ IF r.err = "none"
                    THEN /\ pending' = pending \ {el}
                         /\ UNCHANGED <<pc, err, folder_queue, log, exit_code>>
                    ELSE Abort(r.err)
    /\ UNCHANGED <<syncinterval, sync_count, fwd, round_fs, written,
                   start_time, end_time>>

ReverseFolder ==
    /\ pc = "reverse"
    /\ \E el \in pending :
          /\ is_dir(fs, el)
          /\ LET r == replica_folder_branch(fs, el, SourceRoot, ReplicaRoot, rev)
             IN  /\ fs' = r.fs
                 /\ rev' = r.c
                 /\ last' = [op |-> "replica folder", el |-> el, fs |-> fs, c |-> rev]
                 /\ IF r.err = "none"
                    THEN /\ pending' = pending \ {el}
                         /\ UNCHANGED <<pc, err, folder_queue, log, exit_code>>
                    ELSE Abort(r.err)
    /\ UNCHANGED <<syncinterval, sync_count, fwd, round_fs, written,
                   start_time, end_time>>

\* a loop that is not left when syncinterval is 0
ReverseReturn_no_break ==
    /\ pc = "reverse"
    /\ pending = {}
    /\ folder_queue = <<>>
    /\ pc' = "wait"
    /\ end_time' \in default_timer(start_time)
    /\ UNCHANGED <<fs, syncinterval, sync_count, folder_queue, pending,
                   fwd, rev, err, last, round_fs, written, start_time,
                   log, exit_code>>

\* sync_replica_to_source returns: the round is complete; with
\* syncinterval 0 the loop is left, otherwise the timer is read and
\* sync_folder waits
ReverseReturn ==
    /\ pc = "reverse"
    /\ pending = {}
    /\ folder_queue = <<>>
    /\ IF syncinterval = 0
       THEN pc' = "stopped" /\ end_time' = end_time /\ exit_code' = 0
       ELSE /\ pc' = "wait" /\ end_time' \in default_timer(start_time)
            /\ exit_code' = exit_code
    /\ UNCHANGED <<fs, syncinterval, sync_count, folder_queue, pending,
                   fwd, rev, err, last, round_fs, written, start_time,
                   log>>

\* the waiting loop, lines 78-81: the interval has not elapsed since the
\* round's start; sleep(1) and read the timer again
Sleep ==
    /\ pc = "wait"
    /\ end_time - start_time < syncinterval
    /\ end_time' \in after_sleep(end_time)
    /\ UNCHANGED <<fs, syncinterval, sync_count, pc, folder_queue, pending,
                   fwd, rev, err, last, round_fs, written, start_time,
                   log, exit_code>>

\* a loop that starts the next round without waiting
NextRound_no_gate ==
    /\ pc = "wait"
    /\ sync_count < MaxRounds
    /\ sync_count' = sync_count + 1
    /\ pc' = "round"
    /\ UNCHANGED <<fs, syncinterval, folder_queue, pending, fwd, rev, err, last,
                   round_fs, written, start_time, end_time, log, exit_code>>

\* the waiting loop, lines 82-84: the interval has elapsed; sync_count += 1
\* and the loop starts again
NextRound ==
    /\ pc = "wait"
    /\ ~(end_time - start_time < syncinterval)
    /\ sync_count < MaxRounds
    /\ sync_count' = sync_count + 1
    /\ pc' = "round"
    /\ UNCHANGED <<fs, syncinterval, folder_queue, pending, fwd, rev, err, last,
                   round_fs, written, start_time, end_time, log, exit_code>>

\* KeyboardInterrupt during a round or the wait
Interrupt ==
    /\ pc \in {"forward", "reverse", "wait"}
    /\ Abort("KeyboardInterrupt")
    /\ last' = NoStep
    /\ UNCHANGED <<fs, syncinterval, sync_count, fwd, rev, round_fs, written,
                   start_time, end_time>>

Next ==
    \/ ValidateSource
    \/ ValidateReplica
    \/ StartRound
    \/ ForwardScan
    \/ ForwardFile
    \/ ForwardFolder
    \/ ForwardReturn
    \/ ReverseScan
    \/ ReverseFile
    \/ ReverseFolder
    \/ ReverseReturn
    \/ Sleep
    \/ NextRound
    \/ Interrupt

Spec == Init /\ [][Next]_vars

(***************************************************************************)
(* The trees of the scenario "source has /a/file1 and /b/file2": the same  *)
(* program started on source and replica trees made of these four paths.   *)
(***************************************************************************)
file1 == <<"f", "i", "l", "e", "1">>
file2 == <<"f", "i", "l", "e", "2">>

ScenarioPaths == { << <<"a">> >>, << <<"a">>, file1 >>,
                   << <<"b">> >>, << <<"b">>, file2 >> }

ScenarioEntries == {Dir, File("x", 1), File("y", 2)}

ScenarioTrees ==
    UNION {{t \in [S -> ScenarioEntries] :
               \A p \in S : (\E q \in S : Parent(q) = p) => t[p] = Dir} :
           S \in {T \in SUBSET ScenarioPaths :
                     \A q \in T : Len(q) > 1 => Parent(q) \in T}}

ScenarioInit ==
    /\ \E s \in ScenarioTrees : \E r \in ScenarioTrees :
          fs = (SourceRoot :> Dir) @@ (Parent(ReplicaRoot) :> Dir)
                   @@ (ReplicaRoot :> Dir)
               @@ Mount(SourceRoot, s) @@ Mount(ReplicaRoot, r)
    /\ syncinterval \in Intervals
    /\ sync_count = 1
    /\ pc = "validate_source"
    /\ folder_queue = <<>>
    /\ pending = {}
    /\ fwd = NoCounts
    /\ rev = NoDeletes
    /\ err = "none"
    /\ last = NoStep
    /\ round_fs = fs
    /\ written = {}
    /\ start_time = 0
    /\ end_time = 0
    /\ log = <<>>
    /\ exit_code = Running

ScenarioSpec == ScenarioInit /\ [][Next]_vars

\* the same program started on trees of at most one entry each
SmallInit ==
    /\ \E s \in Trees(1) : \E r \in Trees(1) :
          fs = (SourceRoot :> Dir) @@ (Parent(ReplicaRoot) :> Dir)
                   @@ (ReplicaRoot :> Dir)
               @@ Mount(SourceRoot, s) @@ Mount(ReplicaRoot, r)
    /\ syncinterval \in Intervals
    /\ sync_count = 1
    /\ pc = "validate_source"
    /\ folder_queue = <<>>
    /\ pending = {}
    /\ fwd = NoCounts
    /\ rev = NoDeletes
    /\ err = "none"
    /\ last = NoStep
    /\ round_fs = fs
    /\ written = {}
    /\ start_time = 0
    /\ end_time = 0
    /\ log = <<>>
    /\ exit_code = Running

\* sync_folder is one thread of control: a sleep returns, and the loop
\* goes on to its next statement
Fairness == WF_vars(Sleep) /\ WF_vars(NextRound) /\ WF_vars(StartRound)

FairSpec == SmallInit /\ [][Next]_vars /\ Fairness

\* what can be at the path given as SOURCE: nothing, a file, or a folder
\* with at most one entry
SourceSides ==
    {<<>>} \cup {SourceRoot :> e : e \in Entries \ {Dir}}
           \cup {(SourceRoot :> Dir) @@ Mount(SourceRoot, s) : s \in Trees(1)}

\* what can be at the path given as REPLICA: nothing, with the folder it
\* goes into there or not, or a file in its place; a file; or a folder
\* with at most one entry
ReplicaSides ==
    {<<>>} \cup {Parent(ReplicaRoot) :> e : e \in Entries}
           \cup {(Parent(ReplicaRoot) :> Dir) @@ (ReplicaRoot :> e) :
                     e \in Entries \ {Dir}}
           \cup {(Parent(ReplicaRoot) :> Dir) @@ (ReplicaRoot :> Dir)
                     @@ Mount(ReplicaRoot, r) : r \in Trees(1)}

\* the program started on any SOURCE and REPLICA
StartInit ==
    /\ \E s \in SourceSides : \E r \in ReplicaSides : fs = s @@ r
    /\ syncinterval \in Intervals
    /\ sync_count = 1
    /\ pc = "validate_source"
    /\ folder_queue = <<>>
    /\ pending = {}
    /\ fwd = NoCounts
    /\ rev = NoDeletes
    /\ err = "none"
    /\ last = NoStep
    /\ round_fs = fs
    /\ written = {}
    /\ start_time = 0
    /\ end_time = 0
    /\ log = <<>>
    /\ exit_code = Running

StartSpec == StartInit /\ [][Next]_vars

\* the errors of a file that another process removes or makes unreadable
Transient == {"FileNotFoundError", "PermissionError"}

\* the forward pass is at a source file that another process has just
\* removed or made unreadable: the call that reads the file raises
TransientFailure ==
    /\ pc = "forward"
    /\ \E el \in pending : \E e \in Transient :
          /\ is_file(fs, el)
          /\ fs' = IF e = "FileNotFoundError" THEN Without(fs, {el}) ELSE fs
          /\ fwd' = [fwd EXCEPT !.files_count = @ + 1]
          /\ last' = [op |-> "failed", el |-> el, fs |-> fs, c |-> fwd]
          /\ Abort(e)
    /\ UNCHANGED <<syncinterval, sync_count, rev, round_fs, written,
                   start_time, end_time>>

EnvNext == Next \/ TransientFailure

\* the program with other processes at work on the source
EnvSpec == SmallInit /\ [][EnvNext]_vars /\ Fairness

(***************************************************************************)
(* Properties.                                                             *)
(***************************************************************************)
Rel(p, root) == SubSeq(p, Len(root) + 1, Len(p))

\* the replica path with the relative path of source path el, and back
Twin(el) == ReplicaRoot \o Rel(el, SourceRoot)
SourceTwin(el) == SourceRoot \o Rel(el, ReplicaRoot)

SourceTree == Tree(fs, SourceRoot)
ReplicaTree == Tree(fs, ReplicaRoot)

\* both passes of the current round have returned
RoundDone == err = "none" /\ pc \in {"wait", "stopped"}

\* same relative paths, same types, same file contents
Converged(f) ==
    LET S == Tree(f, SourceRoot)
        R == Tree(f, ReplicaRoot)
    IN  /\ DOMAIN S = DOMAIN R
        /\ \A p \in DOMAIN S : S[p].kind = R[p].kind /\ S[p].data = R[p].data

\* C1: after a completed round the set of relative paths of the replica
\* equals the set of relative paths of the source
C1_LayoutConverges ==
    RoundDone => DOMAIN ReplicaTree = DOMAIN SourceTree

\* C2: after a completed round every replica file that corresponds to a
\* source file has the content of that source file
C2_ContentConverges ==
    RoundDone =>
        \A p \in DOMAIN SourceTree \cap DOMAIN ReplicaTree :
            (SourceTree[p].kind = "file" /\ ReplicaTree[p].kind = "file")
                => ReplicaTree[p].data = SourceTree[p].data

\* C3: after the reverse pass no replica entry, at any depth, is left whose
\* relative path has no source path
C3_Pruned ==
    RoundDone => \A p \in DOMAIN ReplicaTree : p \in DOMAIN SourceTree

\* C4: a round that starts right after a converged round copies, updates
\* and deletes nothing and leaves the replica as it was
C4_Idempotent ==
    (sync_count > 1 /\ pc \in {"forward", "reverse", "wait", "stopped"}
        /\ Converged(round_fs))
    => /\ fwd.files_copied = 0 /\ fwd.files_updated = 0
       /\ fwd.folders_copied = 0 /\ fwd.folders_deleted = 0
       /\ rev.files_deleted = 0 /\ rev.folders_deleted = 0
       /\ Tree(fs, ReplicaRoot) = Tree(round_fs, ReplicaRoot)

\* C5: no step changes, creates or removes an entry that is not below the
\* replica root: the source tree stays as it was
C5_SourceNeverWritten ==
    [][\A p \in DOMAIN fs \cup DOMAIN fs' :
          (~IsPrefix(ReplicaRoot, p) \/ p = ReplicaRoot)
              => (p \in DOMAIN fs /\ p \in DOMAIN fs' /\ fs'[p] = fs[p])]_vars

\* a second round has ended (completed, aborted or interrupted) after the
\* replica was written, and the source is what it was at the start
C5_Witness ==
    /\ sync_count > 1
    /\ pc \in {"stopped", "raised", "wait"}
    /\ Tree(fs, ReplicaRoot) # Tree(round_fs, ReplicaRoot)
    /\ Tree(fs, SourceRoot) = Tree(round_fs, SourceRoot)
    /\ DOMAIN SourceTree # {}

\* the step just taken processed a source file / a source folder
FileStep == last.op = "file"
FolderStep == last.op = "folder"

\* what the replica had, before the step, at the relative path of the entry
TwinWasFile == is_file(last.fs, Twin(last.el))
TwinWasFolder == is_dir(last.fs, Twin(last.el))
TwinWasEmptyFolder == TwinWasFolder /\ Children(last.fs, Twin(last.el)) = {}

\* the replica now has, at the path of the entry, a copy of the source file
TwinIsCopy ==
    /\ is_file(fs, Twin(last.el))
    /\ fs[Twin(last.el)] = fs[last.el]

\* the replica now has, below the path of the folder, what the source has
TwinIsCopyOfTree ==
    /\ is_dir(fs, Twin(last.el))
    /\ Tree(fs, Twin(last.el)) = Tree(fs, last.el)

\* C6: a source folder that is a file in the replica: the file is removed,
\* the whole source subtree is copied, folders_copied grows by one and the
\* pass goes on
C6_FolderOverFile ==
    (FolderStep /\ TwinWasFile)
    => /\ err = "none"
       /\ TwinIsCopyOfTree
       /\ fwd.folders_copied = last.c.folders_copied + 1

\* C7: a source file that is an empty folder in the replica: the folder is
\* removed, the file is copied (files_copied, not files_updated) and
\* folders_deleted grows by one
C7_FileOverEmptyFolder ==
    (FileStep /\ TwinWasEmptyFolder)
    => /\ err = "none"
       /\ TwinIsCopy
       /\ fwd.files_copied = last.c.files_copied + 1
       /\ fwd.files_updated = last.c.files_updated
       /\ fwd.folders_deleted = last.c.folders_deleted + 1

\* C8: a source file that is a non-empty folder in the replica: the pass
\* aborts with an error, the replica is left as it was and folders_deleted
\* does not grow
C8_FileOverFullFolder ==
    (FileStep /\ TwinWasFolder /\ ~TwinWasEmptyFolder)
    => /\ err # "none"
       /\ fs = last.fs
       /\ fwd.folders_deleted = last.c.folders_deleted

\* C9: a source file that is a file in the replica with another
\* modification time: with the same content nothing is copied; with another
\* content the file is copied and files_updated (not files_copied) grows by
\* one
C9_Staleness ==
    (FileStep /\ TwinWasFile
        /\ last.fs[Twin(last.el)].mtime # last.fs[last.el].mtime)
    => IF last.fs[Twin(last.el)].data = last.fs[last.el].data
       THEN /\ fs = last.fs
            /\ fwd.files_copied = last.c.files_copied
            /\ fwd.files_updated = last.c.files_updated
       ELSE /\ err = "none"
            /\ TwinIsCopy
            /\ fwd.files_updated = last.c.files_updated + 1
            /\ fwd.files_copied = last.c.files_copied

\* C10: a source file that is a file in the replica with the same
\* modification time is reported as not modified and is not copied, in any
\* round, whatever the contents
C10_FastPath ==
    (FileStep /\ TwinWasFile
        /\ last.fs[Twin(last.el)].mtime = last.fs[last.el].mtime)
    => /\ is_file_in_other_modified(last.fs, last.el, SourceRoot, ReplicaRoot)
            = "False"
       /\ fs = last.fs
       /\ fwd.files_copied = last.c.files_copied
       /\ fwd.files_updated = last.c.files_updated

\* the files written by the step of the forward pass just taken
JustWritten ==
    {w \in written : /\ w.round = sync_count
                     /\ last.op \in {"file", "folder"}
                     /\ IsPrefix(last.el, w.src)}

\* the step just taken processed a source file that an earlier round has
\* written into the replica, and that copy is still what was written
WrittenBefore ==
    /\ FileStep
    /\ \E w \in written : /\ w.src = last.el
                          /\ w.round < sync_count
                          /\ is_file(last.fs, w.dst)
                          /\ last.fs[w.dst] = last.fs[w.src]

\* C11: a file the forward pass writes into the replica (copy, update or
\* file of a folder copied whole) has, right after the write, the content
\* and the modification time of its source file, and in a later round that
\* source file is not copied again
C11_TimestampPreserved ==
    /\ \A w \in JustWritten :
          /\ is_file(fs, w.dst)
          /\ fs[w.dst].data = fs[w.src].data
          /\ fs[w.dst].mtime = fs[w.src].mtime
    /\ WrittenBefore
       => /\ fs = last.fs
          /\ fwd.files_copied = last.c.files_copied
          /\ fwd.files_updated = last.c.files_updated

\* the round started from the scenario: source has /a/file1 and /b/file2
\* (and nothing else), the replica is empty
FromScenario ==
    LET S == Tree(round_fs, SourceRoot)
    IN  /\ DOMAIN S = ScenarioPaths
        /\ \A p \in ScenarioPaths : S[p].kind = (IF Len(p) = 1 THEN "dir"
                                                               ELSE "file")
        /\ DOMAIN Tree(round_fs, ReplicaRoot) = {}

ScenarioDone == FromScenario /\ sync_count = 1 /\ RoundDone

\* C12 as stated: from the scenario, one round leaves /a/file1 and /b/file2
\* in the replica and counts files_copied = 2, folders_copied = 2,
\* files_updated = 0 and no deletion
C12_ScenarioAsStated ==
    ScenarioDone
    => /\ ReplicaTree = SourceTree
       /\ fwd.files_copied = 2 /\ fwd.folders_copied = 2
       /\ fwd.files_updated = 0
       /\ rev.files_deleted = 0
       /\ fwd.folders_deleted + rev.folders_deleted = 0

\* C12, amended: from the scenario, one round leaves /a/file1 and /b/file2
\* in the replica and counts files_copied = 0 (the two files are copied
\* inside their folders), folders_copied = 2, files_updated = 0 and no
\* deletion
C12_ScenarioCounters ==
    ScenarioDone
    => /\ ReplicaTree = SourceTree
       /\ fwd.files_copied = 0 /\ fwd.folders_copied = 2
       /\ fwd.files_updated = 0
       /\ rev.files_deleted = 0
       /\ fwd.folders_deleted + rev.folders_deleted = 0

\* the round of the scenario has completed and both files are in the replica
C12_Witness ==
    /\ ScenarioDone
    /\ is_file(fs, ReplicaRoot \o << <<"a">>, file1 >>)
    /\ is_file(fs, ReplicaRoot \o << <<"b">>, file2 >>)

\* the forward pass of the current round has returned
ForwardDone == err = "none" /\ pc \in {"reverse", "wait", "stopped"}

\* the files and the folders directly in the source root
RootFiles == {p \in Children(fs, SourceRoot) : is_file(fs, p)}
RootFolders == {p \in Children(fs, SourceRoot) : is_dir(fs, p)}

\* C13: the forward pass counts a file only when it is a direct child of a
\* folder it scanned (the source root, or a source folder that is a folder
\* in the replica); a source folder absent from the replica adds one to
\* folders_count and one to folders_copied, is copied whole and is not
\* scanned; so with an empty replica the pass counts the files and the
\* folders directly in the source root, all as copied
C13_CountingRule ==
    /\ FileStep
       => \/ Parent(last.el) = SourceRoot
          \/ is_dir(last.fs, Twin(Parent(last.el)))
    /\ (FolderStep /\ ~exists(last.fs, Twin(last.el)))
       => /\ err = "none"
          /\ fwd = [last.c EXCEPT !.folders_count = @ + 1,
                                  !.folders_copied = @ + 1]
          /\ \A i \in 1..Len(folder_queue) : folder_queue[i] # last.el
    /\ (ForwardDone /\ DOMAIN Tree(round_fs, ReplicaRoot) = {})
       => /\ fwd.files_count = Cardinality(RootFiles)
          /\ fwd.files_copied = Cardinality(RootFiles)
          /\ fwd.folders_count = Cardinality(RootFolders)
          /\ fwd.folders_copied = Cardinality(RootFolders)

\* the step just taken processed a replica file / a replica folder
ReplicaFileStep == last.op = "replica file"
ReplicaFolderStep == last.op = "replica folder"

\* the step just taken removed the entry it processed
Removed == exists(last.fs, last.el) /\ ~exists(fs, last.el)

\* C14: a replica folder the reverse pass prunes goes with everything below
\* it, adds one to folders_deleted and nothing to files_deleted, whatever it
\* contains; files_deleted grows only by a file deleted on its own
C14_PrunedAsUnit ==
    /\ (ReplicaFolderStep /\ Removed)
       => /\ fs = Without(last.fs, Under(last.fs, last.el))
          /\ rev.folders_deleted = last.c.folders_deleted + 1
          /\ rev.files_deleted = last.c.files_deleted
    /\ (ReplicaFileStep \/ ReplicaFolderStep)
       => rev.files_deleted = last.c.files_deleted
             + (IF ReplicaFileStep /\ Removed THEN 1 ELSE 0)

\* a replica folder with a file below it has just been pruned
C14_Witness ==
    /\ ReplicaFolderStep
    /\ Removed
    /\ \E q \in Below(last.fs, last.el) : is_file(last.fs, q)
    /\ rev.folders_deleted = 1

\* the relative paths f has in the replica and not in the source
ReplicaOnly(f) == DOMAIN Tree(f, ReplicaRoot) \ DOMAIN Tree(f, SourceRoot)

\* sync_source_to_replica has just returned
ForwardReturned ==
    pc = "reverse" /\ folder_queue = reverse_queue(SourceRoot, ReplicaRoot)

\* C15: no step of the forward pass removes or changes a replica entry
\* whose relative path is not in the source, and when the pass returns the
\* replica paths that are not source paths are those of before the pass
C15_ForwardKeepsReplicaOnly ==
    /\ (FileStep \/ FolderStep)
       => \A p \in ReplicaOnly(last.fs) :
             /\ exists(fs, ReplicaRoot \o p)
             /\ fs[ReplicaRoot \o p] = last.fs[ReplicaRoot \o p]
    /\ ForwardReturned => ReplicaOnly(fs) = ReplicaOnly(round_fs)

\* replica path p had, before the step, an entry of the same type at its
\* relative path in the source
HadCounterpart(p) ==
    /\ exists(last.fs, SourceTwin(p))
    /\ last.fs[SourceTwin(p)].kind = last.fs[p].kind

\* C16: a step of the reverse pass creates and changes nothing, and leaves
\* in place every replica entry that has an entry of the same type at its
\* relative path in the source, unless the entry is below a folder the step
\* prunes
C16_ReverseOnlyRemovesObsolete ==
    (ReplicaFileStep \/ ReplicaFolderStep)
    => /\ \A p \in DOMAIN fs : exists(last.fs, p) /\ fs[p] = last.fs[p]
       /\ \A p \in Under(last.fs, ReplicaRoot) \ {ReplicaRoot} :
             (HadCounterpart(p) /\ (p = last.el \/ ~IsPrefix(last.el, p)))
                 => exists(fs, p)

\* C17: a replica file whose relative path is a folder in the source makes
\* the reverse pass raise ExpectedFileIsAFolder: the file is not deleted and
\* files_deleted does not grow
C17_ReverseFileOverFolder ==
    (ReplicaFileStep /\ is_dir(last.fs, SourceTwin(last.el)))
    => /\ err = "ExpectedFileIsAFolder"
       /\ fs = last.fs
       /\ rev.files_deleted = last.c.files_deleted

\* "True" or "False"
Bool(b) == IF b THEN "True" ELSE "False"

\* the classifications of entry el of root A against root B are those of
\* what B has at exactly the relative path of el
Exact(f, el, A, B) ==
    LET t == B \o Rel(el, A)
    IN  /\ is_file(f, el)
           => /\ is_file_in_other_as_folder(f, el, A, B) = Bool(is_dir(f, t))
              /\ is_file_in_other(f, el, A, B)
                    = (IF is_dir(f, t) THEN "ExpectedFileIsAFolder"
                       ELSE Bool(is_file(f, t)))
        /\ is_dir(f, el)
           => /\ is_folder_in_other_as_folder(f, el, A, B) = Bool(is_dir(f, t))
              /\ is_folder_in_other_as_file(f, el, A, B) = Bool(is_file(f, t))

\* C18: for every entry below the source the classification against the
\* replica, and for every entry below the replica the classification
\* against the source, depends only on what is at exactly the same relative
\* path under the other root, whatever the names are
C18_ClassifierExact ==
    /\ \A el \in Below(fs, SourceRoot) : Exact(fs, el, SourceRoot, ReplicaRoot)
    /\ \A el \in Below(fs, ReplicaRoot) : Exact(fs, el, ReplicaRoot, SourceRoot)

\* C19: with syncinterval 0 sync_folder runs one round and stops; with
\* another syncinterval every completed round is followed by the start of
\* the next round, unless an interrupt ends sync_folder
C19_RoundRepetition ==
    /\ [](syncinterval = 0 => (sync_count = 1 /\ (RoundDone => pc = "stopped")))
    /\ \A k \in 1..(MaxRounds - 1) :
          (RoundDone /\ syncinterval # 0 /\ sync_count = k)
              ~> ((pc = "forward" /\ sync_count = k + 1) \/ err # "none")

\* a second round has started after a completed round
C19_Witness ==
    /\ syncinterval # 0
    /\ sync_count = 2
    /\ pc = "forward"
    /\ err = "none"

\* the interval has elapsed since the start of the round
Elapsed == end_time - start_time >= syncinterval

\* C20: a round after the first starts at least syncinterval seconds after
\* the start of the round before it; sync_folder sleeps only while the
\* interval has not elapsed since the round's start, so after a round that
\* took that long the next round starts without a wait; a round starts
\* only when both passes of the round before it have returned
C20_IntervalGate ==
    /\ [][/\ (pc = "round" /\ pc' = "forward" /\ sync_count > 1)
             => start_time' - start_time >= syncinterval
          /\ (pc = "wait" /\ end_time' # end_time) => ~Elapsed
          /\ (pc = "reverse" /\ pc' = "wait" /\ sync_count < MaxRounds
                 /\ end_time' - start_time >= syncinterval)
             => (ENABLED NextRound)'
          /\ sync_count' # sync_count
             => (pc = "wait" /\ pending = {} /\ folder_queue = <<>>)]_vars

\* a second round has started, a whole interval after the start of the first
C20_Witness ==
    /\ syncinterval # 0
    /\ sync_count = 2
    /\ pc = "forward"
    /\ start_time >= syncinterval

\* a round has been aborted by the error of a file that was removed or made
\* unreadable
TransientAbort == last.op = "failed" /\ err \in Transient

\* C21: a round that a transient error aborts is not carried on, and when
\* syncinterval is not 0 sync_folder does not end: it goes on to wait for
\* the next round
C21_RetryNextRound ==
    (TransientAbort /\ syncinterval # 0)
        => /\ pending = {} /\ folder_queue = <<>>
           /\ pc \in {"wait", "round", "forward", "reverse"}
           /\ exit_code = Running
\* a pass has raised an exception at an entry
RoundError == err # "none" /\ last.op # "none"

\* C22: the exception that aborts a round is in the log
C22_AbortLogged ==
    RoundError => \E i \in DOMAIN log : log[i] = exception(err)
\* the source is missing or no folder, or the replica is there and is no
\* folder
SourceInvalid == ~is_dir(fs, SourceRoot)
ReplicaInvalid == exists(fs, ReplicaRoot) /\ ~is_dir(fs, ReplicaRoot)
Validating == pc \in {"validate_source", "validate_replica"}

\* C23: with a source that is missing or no folder, or a replica that is
\* there and is no folder, the process ends with exit status 1 once the
\* validation is over: no pass has started or starts afterwards and nothing
\* is created; with an invalid source the replica is not even looked at
C23_ConfigErrorExits ==
    /\ ((SourceInvalid \/ ReplicaInvalid) /\ ~Validating)
          => /\ pc = "exited"
             /\ exit_code = 1
             /\ sync_count = 1 /\ last = NoStep /\ fwd = NoCounts
             /\ rev = NoDeletes /\ folder_queue = <<>> /\ pending = {}
             /\ fs = round_fs
    /\ SourceInvalid => pc \in {"validate_source", "exited"} /\ fs = round_fs

\* the process has ended with status 1 on a source that is a file; the
\* replica was not there and has not been created
C23_Witness ==
    /\ pc = "exited"
    /\ exit_code = 1
    /\ is_file(fs, SourceRoot)
    /\ ~exists(fs, ReplicaRoot)
    /\ is_dir(fs, Parent(ReplicaRoot))
\* the process has ended in validate_replica without a replica: the replica
\* was not there and could not be created
CreationDenied == pc = "exited" /\ ~SourceInvalid /\ ~exists(fs, ReplicaRoot)

\* C24: when the replica cannot be created for lack of permission, the
\* failure is logged and the process ends with a non-zero exit status before
\* any round
C24_DeniedExitsNonZero ==
    CreationDenied
        => /\ \E i \in DOMAIN log :
                 log[i] = error("Permission denied trying to create REPLICA folder")
           /\ exit_code > 0
           /\ sync_count = 1 /\ last = NoStep /\ fwd = NoCounts
           /\ rev = NoDeletes /\ fs = round_fs
\* the paths from the root of the file system down to p
UpTo(p) == {SubSeq(p, 1, k) : k \in 1..Len(p)}

\* C25: a pass runs with a source and a replica that are folders; the
\* validation changes the file system only after the source was found to
\* be a folder, and only by creating a replica that was not there, with
\* the folders above it that were not there; and a replica that is not
\* there is created before the first round unless permission is denied or
\* a file is in the way
C25_RootInvariant ==
    [][/\ pc' \in {"forward", "reverse"}
             => is_dir(fs', SourceRoot) /\ is_dir(fs', ReplicaRoot)
       /\ (Validating /\ pc' = "round")
             => is_dir(fs', SourceRoot) /\ is_dir(fs', ReplicaRoot)
       /\ (Validating /\ fs' # fs)
             => /\ pc = "validate_replica" /\ pc' = "round"
                /\ is_dir(fs, SourceRoot)
                /\ ~exists(fs, ReplicaRoot)
                /\ DOMAIN fs' = DOMAIN fs \cup UpTo(ReplicaRoot)
                /\ \A p \in DOMAIN fs : fs'[p] = fs[p]
                /\ \A p \in UpTo(ReplicaRoot) : is_dir(fs', p)
       /\ (/\ pc = "validate_replica"
           /\ ~exists(fs, ReplicaRoot)
           /\ ~\E p \in UpTo(ReplicaRoot) : is_file(fs, p)
           /\ pc' # "exited")
             => pc' = "round" /\ is_dir(fs', ReplicaRoot)]_vars

\* the validation is over and the first round is about to start: the
\* replica and the folder above it were not there and are folders now
C25_Witness ==
    /\ pc = "round"
    /\ sync_count = 1
    /\ ~exists(round_fs, ReplicaRoot)
    /\ ~exists(round_fs, Parent(ReplicaRoot))
    /\ is_dir(fs, Parent(ReplicaRoot))
    /\ is_dir(fs, ReplicaRoot)
    /\ Children(fs, SourceRoot) # {}
Interrupted == err = "KeyboardInterrupt"

\* C26: a KeyboardInterrupt during a pass or the wait ends sync_folder
\* without an exception: a warning is logged, the file system is left as
\* it is, and nothing happens afterwards
C26_InterruptStops ==
    [][/\ ~Interrupted
       /\ Interrupted'
             => /\ pc \in {"forward", "reverse", "wait"}
                /\ pc' = "stopped"
                /\ exit_code' = 0
                /\ log' = Append(log, warn("Sync interrupted by keyboard"))
                /\ fs' = fs
                /\ sync_count' = sync_count]_vars

\* sync_folder was interrupted after the round had changed the replica
C26_Witness ==
    /\ Interrupted
    /\ pc = "stopped"
    /\ Tree(fs, ReplicaRoot) # Tree(round_fs, ReplicaRoot)
    /\ log # <<>>
ForwardOps == {"file", "folder"}
ReverseOps == {"replica file", "replica folder"}

\* C27: the reverse pass starts from a forward pass that has nothing left
\* to do and has raised nothing; a step of the forward pass is taken in
\* the forward pass and a step of the reverse pass in the reverse pass;
\* only the reverse pass counts deletions of its own; and when a step of
\* the forward pass raises, sync_folder ends with nothing pruned
C27_PassOrdering ==
    [][/\ (pc' = "reverse" /\ pc # "reverse")
             => /\ pc = "forward"
                /\ pending = {} /\ folder_queue = <<>>
                /\ err = "none" /\ err' = "none"
                /\ rev' = NoDeletes
       /\ (last' # last /\ last'.op \in ForwardOps) => pc = "forward"
       /\ (last' # last /\ last'.op \in ReverseOps) => pc = "reverse"
       /\ (rev' # rev /\ rev' # NoDeletes) => pc = "reverse"
       /\ (pc = "forward" /\ err' # "none")
             => /\ pc' \in {"stopped", "raised"}
                /\ rev' = NoDeletes
                /\ Tree(fs', ReplicaRoot) = Tree(fs, ReplicaRoot)
                      \/ last'.op \in ForwardOps
       /\ pc \notin {"stopped", "raised", "exited"}]_vars

\* the reverse pass has pruned after a forward pass that worked on entries
C27_Witness ==
    /\ pc = "reverse"
    /\ err = "none"
    /\ fwd.files_count + fwd.folders_count > 0
    /\ rev.files_deleted + rev.folders_deleted > 0
\* C28: the forward pass starts with the source alone in its queue; it
\* scans the head of the queue and takes it off; a source folder is put at
\* the end of the queue exactly when the replica has a folder at its
\* relative path, and a folder that is copied is not; no folder is in the
\* queue twice; and the pass returns with an empty queue
C28_ForwardTraversal ==
    [][/\ (pc = "round" /\ pc' = "forward")
             => folder_queue' = <<SourceRoot>> /\ pending' = {}
       /\ (pc = "forward" /\ pc' = "forward" /\ folder_queue' # folder_queue
              /\ last' = last)
             => /\ pending = {}
                /\ folder_queue' = Tail(folder_queue)
                /\ pending' = Children(fs, Head(folder_queue))
       /\ (pc = "forward" /\ last' # last /\ last'.op = "folder"
              /\ err' = "none")
             => /\ is_dir(fs, Twin(last'.el))
                      => /\ folder_queue' = Append(folder_queue, last'.el)
                         /\ fwd'.folders_copied = fwd.folders_copied
                /\ ~is_dir(fs, Twin(last'.el))
                      => folder_queue' = folder_queue
       /\ (pc = "forward" /\ last' # last /\ last'.op = "file")
             => folder_queue' \in {folder_queue, <<>>}
       /\ pc' = "forward"
             => \A i, j \in DOMAIN folder_queue' :
                   i # j => folder_queue'[i] # folder_queue'[j]
       /\ (pc = "forward" /\ pc' = "reverse")
             => folder_queue = <<>> /\ pending = {}]_vars
\* C29: when both passes of a round have returned, the replica has every
\* relative path of the source, with the type it has in the source
C29_ReplicaCoversSource ==
    RoundDone
        => \A p \in DOMAIN SourceTree :
              /\ p \in DOMAIN ReplicaTree
              /\ ReplicaTree[p].kind = SourceTree[p].kind
====
